---- MODULE Spec2Model ----
(***************************************************************************)
(* Model of timeseries/basic.py: the TimeSeries value type, its            *)
(* ArrayTimeSeries variant and the helper isNumericList.                   *)
(*                                                                         *)
(* Python values are encoded as records [tag, v]: tag "num" is a number    *)
(* with value v, tag "str" is the non-numeric string 'a', tag "numstr" is  *)
(* the string form of the number v (what numpy's array() makes of a number *)
(* that shares an array with a string).  Python list objects live in the   *)
(* heap, a function from cell names to sequences, so that two references   *)
(* to one list can be told from two lists with equal contents.             *)
(***************************************************************************)
EXTENDS Integers, Sequences, FiniteSets, TLC

VARIABLES heap, caller, ts, rhs, ats, last, hist

vars == <<heap, caller, ts, rhs, ats, last, hist>>

----------------------------------------------------------------------------
(* Bounds of the model *)

MaxLen == 2

MaxVal == 1

MaxMutations == 1

ArrMaxLen == 3

ArrMaxTime == 2

MaxQueryLen == 2

----------------------------------------------------------------------------
(* Python values *)

Num(n) == [tag |-> "num", v |-> n]

StrA == [tag |-> "str", v |-> 0]

NumStr(n) == [tag |-> "numstr", v |-> n]

NumElems == {Num(n) : n \in 0..MaxVal}

Elems == NumElems \cup {StrA}

SeqsUpTo(S, n) == UNION {[1..k -> S] : k \in 0..n}

Lists == SeqsUpTo(Elems, MaxLen)

NumLists == SeqsUpTo(NumElems, MaxLen)

\* float(x): succeeds on numbers and on strings that spell a number
Floatable(x) == x.tag \in {"num", "numstr"}

\* x <= y: "T", "F", or "TypeError" when a number meets a string
PyLe(x, y) ==
    IF x.tag = "num" /\ y.tag = "num"
    THEN (IF x.v <= y.v THEN "T" ELSE "F")
    ELSE IF x.tag # "num" /\ y.tag # "num"
    THEN (IF x.tag = y.tag
          THEN (IF x.v <= y.v THEN "T" ELSE "F")
          ELSE (IF x.tag = "numstr" THEN "T" ELSE "F"))
    ELSE "TypeError"

AllNumeric(s) == \A i \in 1..Len(s) : s[i].tag = "num"

NonDecreasing(s) == \A i \in 1..(Len(s) - 1) : s[i].v <= s[i + 1].v

Min(a, b) == IF a <= b THEN a ELSE b

\* list(zip(a, b)): pairs up to the shorter length
Zip(a, b) == [i \in 1..Min(Len(a), Len(b)) |-> <<a[i], b[i]>>]

\* range(0, n) as a sequence
RangeSeq(n) == [i \in 1..n |-> Num(i - 1)]

----------------------------------------------------------------------------
(* isNumericList, basic.py:7-16 *)

\* The loop returns on its first element; on an empty sequence the function
\* falls off its end and returns None.
isNumericList(seq) ==
    IF Len(seq) = 0 THEN "None"
    ELSE IF Floatable(seq[1]) THEN "True" ELSE "False"

Truthy(b) == b = "True"

\* all(times[i] <= times[i+1] for i in range(len(times)-1)): the generator
\* stops at the first pair that is not "T"
FirstBad(t) ==
    LET bad == {i \in 1..(Len(t) - 1) : PyLe(t[i], t[i + 1]) # "T"}
    IN  IF bad = {} THEN 0 ELSE CHOOSE i \in bad : \A j \in bad : i <= j

OrderedCheck(t) ==
    IF FirstBad(t) = 0 THEN "True"
    ELSE IF PyLe(t[FirstBad(t)], t[FirstBad(t) + 1]) = "F" THEN "False"
    ELSE "TypeError"

----------------------------------------------------------------------------
(* Objects and the heap *)

Cells == {"argV", "argT", "tsV", "tsT", "rhsV", "rhsT", "tmpV", "tmpT", "resV", "resT"}

VCell(slot) == slot \o "V"

TCell(slot) == slot \o "T"

NoneObj == [class |-> "NoneType"]

ListTimes(ref) == [kind |-> "list", ref |-> ref, n |-> 0]

RangeTimes(n) == [kind |-> "range", ref |-> "none", n |-> n]

\* the contents of a series' _times, a list or a range object
TimesOf(h, o) == IF o._times.kind = "range" THEN RangeSeq(o._times.n) ELSE h[o._times.ref]

ValuesOf(h, o) == h[o._values]

\* Other form: the new name is bound to the same list object.
ListCompAlias(h, src, dst) == [ref |-> src, heap |-> h]

\* [v for v in src]: a new list object with the same contents
ListComp(h, src, dst) == [ref |-> dst, heap |-> [h EXCEPT ![dst] = h[src]]]

Failure(h, e) == [err |-> e, obj |-> NoneObj, heap |-> h]

TSObj(vref, times, pairs) ==
    [class |-> "TimeSeries", _values |-> vref, _times |-> times, timeseries |-> pairs]

\* Other form: the lengths are never compared (as in ArrayTimeSeries.__init__).
SameLengthsUnchecked(times, values) == TRUE

\* len(times) == len(values), the condition of the third assertion
SameLengths(times, values) == Len(times) = Len(values)

----------------------------------------------------------------------------
(* TimeSeries.__init__(self, values, times=None), basic.py:57-71.          *)
(* values is a list reference, times a list reference or "None"; slot      *)
(* names the cells that hold the new object's own lists.  The three        *)
(* assertion messages are named as the error kinds of the specification:   *)
(* "must be only contain numerical entries" is InvalidDataError, "must be  *)
(* ordered" is UnorderedTimesError, "must have the same lengths" is        *)
(* LengthMismatchError.  A failed construction leaves the heap as it was.  *)

TimeSeries__init__(h, values, times, slot) ==
    IF Len(h[values]) = 0
    THEN [err |-> "ok",
          obj |-> TSObj(VCell(slot), ListTimes(TCell(slot)), <<>>),
          heap |-> [h EXCEPT ![VCell(slot)] = <<>>, ![TCell(slot)] = <<>>]]
    ELSE IF ~Truthy(isNumericList(h[values]))
    THEN Failure(h, "InvalidDataError")
    ELSE LET c1 == ListComp(h, values, VCell(slot))
         IN  IF times # "None" /\ Len(c1.heap[times]) > 0
             THEN IF ~Truthy(isNumericList(c1.heap[times]))
                  THEN Failure(h, "InvalidDataError")
                  ELSE IF OrderedCheck(c1.heap[times]) = "TypeError"
                  THEN Failure(h, "TypeError")
                  ELSE IF OrderedCheck(c1.heap[times]) = "False"
                  THEN Failure(h, "UnorderedTimesError")
                  ELSE IF ~SameLengths(c1.heap[times], h[values])
                  THEN Failure(h, "LengthMismatchError")
                  ELSE LET c2 == ListComp(c1.heap, times, TCell(slot))
                       IN  [err |-> "ok",
                            obj |-> TSObj(c1.ref, ListTimes(c2.ref),
                                          Zip(c2.heap[c2.ref], c2.heap[c1.ref])),
                            heap |-> c2.heap]
             ELSE [err |-> "ok",
                   obj |-> TSObj(c1.ref, RangeTimes(Len(c1.heap[c1.ref])),
                                 Zip(RangeSeq(Len(c1.heap[c1.ref])), c1.heap[c1.ref])),
                   heap |-> c1.heap]

----------------------------------------------------------------------------
(* Index access, basic.py:98-129 *)

\* a Python index i into a sequence of length n, as a position from 1, or 0
\* when it is out of range (IndexError); negative indices count from the end
PyIndex(n, i) ==
    IF 0 <= i /\ i < n THEN i + 1
    ELSE IF 0 - n <= i /\ i < 0 THEN n + i + 1
    ELSE 0

\* self._times[i] for a list or a range object
TimesLen(h, o) == IF o._times.kind = "range" THEN o._times.n ELSE Len(h[o._times.ref])

\* TimeSeries.__getitem__: [err, out]
TimeSeries__getitem__(h, self, i) ==
    IF PyIndex(Len(h[self._values]), i) = 0
    THEN [err |-> "IndexError", out |-> Num(0)]
    ELSE [err |-> "ok", out |-> h[self._values][PyIndex(Len(h[self._values]), i)]]

\* Other form: the pair is not rewritten.
TimeSeries__setitem__ValuesOnly(h, self, i, value) ==
    IF PyIndex(Len(h[self._values]), i) = 0
    THEN [err |-> "IndexError", obj |-> self, heap |-> h]
    ELSE [err |-> "ok", obj |-> self,
          heap |-> [h EXCEPT ![self._values][PyIndex(Len(h[self._values]), i)] = value]]

\* Other form: the pair's time is set to the position.
TimeSeries__setitem__IndexAsTime(h, self, i, value) ==
    IF PyIndex(Len(h[self._values]), i) = 0
    THEN [err |-> "IndexError", obj |-> self, heap |-> h]
    ELSE [err |-> "ok",
          obj |-> [self EXCEPT !.timeseries[PyIndex(Len(self.timeseries), i)] =
                                  <<Num(PyIndex(Len(self.timeseries), i) - 1), value>>],
          heap |-> [h EXCEPT ![self._values][PyIndex(Len(h[self._values]), i)] = value]]

\* TimeSeries.__setitem__: [err, obj, heap].  Line 128 stores into _values;
\* line 129 reads _times[i] and stores the pair.  An IndexError of line 129
\* would come after line 128 has taken effect.
TimeSeries__setitem__(h, self, i, value) ==
    IF PyIndex(Len(h[self._values]), i) = 0
    THEN [err |-> "IndexError", obj |-> self, heap |-> h]
    ELSE LET h1 == [h EXCEPT ![self._values][PyIndex(Len(h[self._values]), i)] = value]
         IN  IF PyIndex(TimesLen(h1, self), i) = 0 \/ PyIndex(Len(self.timeseries), i) = 0
             THEN [err |-> "IndexError", obj |-> self, heap |-> h1]
             ELSE [err |-> "ok",
                   obj |-> [self EXCEPT !.timeseries[PyIndex(Len(self.timeseries), i)] =
                               <<TimesOf(h1, self)[PyIndex(TimesLen(h1, self), i)], value>>],
                   heap |-> h1]

----------------------------------------------------------------------------
(* abs and bool, basic.py:187-191.  The module imports itertools, reprlib  *)
(* and numpy (lines 3-5); a name that is not bound raises NameError when   *)
(* it is looked up, before the call's argument is evaluated.               *)

ModuleGlobals == {"itertools", "reprlib", "np", "isNumericList", "TimeSeries", "ArrayTimeSeries"}

RECURSIVE SumSquares(_)
SumSquares(s) == IF Len(s) = 0 THEN 0 ELSE s[1].v * s[1].v + SumSquares(Tail(s))

\* TimeSeries.__abs__: [err, out]; out is the number whose square root the
\* call returns
TimeSeries__abs__(h, self) ==
    IF "math" \notin ModuleGlobals
    THEN [err |-> "NameError", out |-> 0]
    ELSE [err |-> "ok", out |-> SumSquares(h[self._values])]

\* TimeSeries.__bool__: [err, out]
TimeSeries__bool__(h, self) ==
    IF TimeSeries__abs__(h, self).err # "ok"
    THEN [err |-> TimeSeries__abs__(h, self).err, out |-> FALSE]
    ELSE [err |-> "ok", out |-> TimeSeries__abs__(h, self).out # 0]

----------------------------------------------------------------------------
(* Binary operators, basic.py:199-236 *)

\* self.name: an attribute of an instance is an entry of the object's record
HasAttr(o, name) == name \in DOMAIN o

\* self._times == rhs._times: two lists are equal when their elements are, two
\* range objects when they stand for the same sequence, and a range object
\* never equals a list
TimesEq(h, a, b) ==
    IF a._times.kind # b._times.kind THEN FALSE
    ELSE IF a._times.kind = "range" THEN a._times.n = b._times.n
    ELSE h[a._times.ref] = h[b._times.ref]

\* TimeSeries._check_match_helper: "ok" or the error raised.  `raise
\* NotImplemented` raises TypeError, NotImplemented being no exception.
TimeSeries_check_match_helper(h, self, other) ==
    IF ~HasAttr(self, "hastime") THEN "AttributeError"
    ELSE IF ~self.hastime THEN "TypeError"
    ELSE IF ~HasAttr(other, "hastime") THEN "AttributeError"
    ELSE IF ~other.hastime THEN "TypeError"
    ELSE IF ~TimesEq(h, self, other) THEN "TimeMismatchError"
    ELSE "ok"

\* a + b, a - b, a * b on numbers
PyArith(op, a, b) ==
    IF op = "add" THEN Num(a.v + b.v)
    ELSE IF op = "sub" THEN Num(a.v - b.v)
    ELSE Num(a.v * b.v)

IsTimeSeries(o) == o.class \in {"TimeSeries", "ArrayTimeSeries"}

\* __add__, __sub__, __mul__: [err, out, heap].  The two list comprehensions
\* are temporaries (cells tmpV, tmpT); the new series owns the cells resV, resT.
TimeSeriesArith(h, self, other, op) ==
    IF ~IsTimeSeries(other)
    THEN [err |-> "TypeOperandError", out |-> NoneObj, heap |-> h]
    ELSE IF TimeSeries_check_match_helper(h, self, other) # "ok"
    THEN [err |-> TimeSeries_check_match_helper(h, self, other), out |-> NoneObj, heap |-> h]
    ELSE LET pairs == Zip(h[self._values], h[other._values])
             h1 == [h EXCEPT !["tmpV"] = [i \in 1..Len(pairs) |-> PyArith(op, pairs[i][1], pairs[i][2])],
                             !["tmpT"] = TimesOf(h, self)]
             r == TimeSeries__init__(h1, "tmpV", "tmpT", "res")
         IN  [err |-> r.err, out |-> r.obj, heap |-> r.heap]

\* __eq__: [err, out]
TimeSeries__eq__(h, self, other) ==
    IF ~IsTimeSeries(other)
    THEN [err |-> "TypeOperandError", out |-> FALSE]
    ELSE IF TimeSeries_check_match_helper(h, self, other) # "ok"
    THEN [err |-> TimeSeries_check_match_helper(h, self, other), out |-> FALSE]
    ELSE [err |-> "ok",
          out |-> \A i \in 1..Min(Len(h[self._values]), Len(h[other._values])) :
                     h[self._values][i] = h[other._values][i]]

----------------------------------------------------------------------------
(* numpy arrays.  An array holds one element type: array() of a sequence   *)
(* in which a string occurs turns every number into its string form.       *)

ToStr(x) == IF x.tag = "num" THEN NumStr(x.v) ELSE x

NpArray(seq) ==
    IF \E i \in 1..Len(seq) : seq[i].tag # "num"
    THEN [i \in 1..Len(seq) |-> ToStr(seq[i])]
    ELSE seq

\* array(list(zip(a, b))): a two-column array, again of one element type
NpArrayPairs(a, b) ==
    IF \E i \in 1..Min(Len(a), Len(b)) : a[i].tag # "num" \/ b[i].tag # "num"
    THEN [i \in 1..Min(Len(a), Len(b)) |-> <<ToStr(a[i]), ToStr(b[i])>>]
    ELSE Zip(a, b)

ATSObj(values, times) ==
    [class |-> "ArrayTimeSeries", _values |-> values, _times |-> times,
     timeseries |-> NpArrayPairs(times, values)]

ATSFailure(e) == [err |-> e, obj |-> NoneObj]

----------------------------------------------------------------------------
(* ArrayTimeSeries.__init__(self, times, values), basic.py:240-249.        *)
(* values and times are sequences; given tells whether times is a list or  *)
(* None.  There is no test for empty values before isNumericList and no    *)
(* comparison of the two lengths.                                          *)

ArrayTimeSeries__init__(times, given, values) ==
    IF ~Truthy(isNumericList(values))
    THEN ATSFailure("InvalidDataError")
    ELSE IF given /\ Len(times) > 0
    THEN IF ~Truthy(isNumericList(times))
         THEN ATSFailure("InvalidDataError")
         ELSE IF OrderedCheck(times) = "TypeError"
         THEN ATSFailure("TypeError")
         ELSE IF OrderedCheck(times) = "False"
         THEN ATSFailure("UnorderedTimesError")
         ELSE [err |-> "ok", obj |-> ATSObj(NpArray(values), NpArray(times))]
    ELSE [err |-> "ok", obj |-> ATSObj(NpArray(values), RangeSeq(Len(values)))]

----------------------------------------------------------------------------
(* ArrayTimeSeries.interpolate(self, times), basic.py:251-266.             *)
(* Numbers are exact here: a result is a fraction [num, den] in lowest     *)
(* terms with den > 0, where Python holds the nearest float.               *)

Abs(n) == IF n < 0 THEN -n ELSE n

RECURSIVE Gcd(_, _)
Gcd(a, b) == IF b = 0 THEN a ELSE Gcd(b, a % b)

Frac(p, q) ==
    LET g == Gcd(Abs(p), Abs(q))
        sgn == IF q < 0 THEN -1 ELSE 1
    IN  [num |-> sgn * (p \div g), den |-> sgn * (q \div g)]

\* np.sum(self._times < t) - 1, an index counted from 0
PrevIndex(times, t) == Cardinality({i \in 1..Len(times) : times[i].v < t.v}) - 1

\* one pass of the loop body for query time t: [err, val]
InterpolateOne(self, t) ==
    LET T == self._times
        V == self._values
        k == PrevIndex(T, t)
    IN  IF t.tag # "num" \/ T[1].tag # "num"
        THEN [err |-> "TypeError", val |-> Frac(0, 1)]
        ELSE IF t.v <= T[1].v
        THEN [err |-> "ok", val |-> Frac(T[1].v, 1)]
        ELSE IF t.v >= T[Len(T)].v
        THEN [err |-> "ok", val |-> Frac(T[Len(T)].v, 1)]
        ELSE IF k + 2 > Len(V)
        THEN [err |-> "IndexError", val |-> Frac(0, 1)]
        ELSE IF V[k + 2].tag # "num" \/ V[k + 1].tag # "num"
        THEN [err |-> "TypeError", val |-> Frac(0, 1)]
        ELSE IF T[k + 2].v - T[k + 1].v = 0
        THEN [err |-> "ok", val |-> [num |-> 0, den |-> 0]]   \* numpy: inf or nan
        ELSE [err |-> "ok",
              val |-> Frac(V[k + 1].v * (T[k + 2].v - T[k + 1].v)
                             + (t.v - T[k + 1].v) * (V[k + 2].v - V[k + 1].v),
                           T[k + 2].v - T[k + 1].v)]

\* the whole call: [err, out]; the first failing query time ends it
interpolate(self, times) ==
    IF ~(Len(self._times) >= 1)
    THEN [err |-> "InsufficientDataError", out |-> <<>>]
    ELSE IF ~Truthy(isNumericList(times))
    THEN [err |-> "InvalidDataError", out |-> <<>>]
    ELSE LET bad == {j \in 1..Len(times) : InterpolateOne(self, times[j]).err # "ok"}
         IN  IF bad # {}
             THEN [err |-> InterpolateOne(self, times[CHOOSE j \in bad : \A m \in bad : j <= m]).err,
                   out |-> <<>>]
             ELSE [err |-> "ok",
                   out |-> [j \in 1..Len(times) |-> InterpolateOne(self, times[j]).val]]

----------------------------------------------------------------------------
(* The caller's arguments and the record of the last call *)

\* the times argument as the caller passed it: omitted, or the list's contents
TimesArg(h, c) ==
    IF c.times = "None" THEN [given |-> FALSE, seq |-> <<>>]
    ELSE [given |-> TRUE, seq |-> h[c.times]]

NoCall ==
    [op |-> "none", err |-> "ok", values |-> <<>>,
     times |-> [given |-> FALSE, seq |-> <<>>], out |-> NoneObj]

EmptyHeap == [c \in Cells |-> <<>>]

InitCtorArgs ==
    /\ \E v \in Lists, t \in Lists, g \in BOOLEAN :
          /\ ~g => t = <<>>
          /\ heap = [EmptyHeap EXCEPT !["argV"] = v, !["argT"] = t]
          /\ caller = [values |-> "argV", times |-> IF g THEN "argT" ELSE "None"]
    /\ ts = NoneObj
    /\ rhs = NoneObj
    /\ ats = NoneObj
    /\ last = NoCall
    /\ hist = [values |-> <<>>, times |-> [given |-> FALSE, seq |-> <<>>],
               times0 |-> <<>>, muts |-> 0]

Init == InitCtorArgs

\* ts = TimeSeries(values, times): on an exception the name ts keeps its binding
ConstructTS ==
    LET r == TimeSeries__init__(heap, caller.values, caller.times, "ts")
    IN  /\ last' = [op |-> "TimeSeries", err |-> r.err,
                    values |-> heap[caller.values], times |-> TimesArg(heap, caller),
                    out |-> r.obj]
        /\ IF r.err = "ok"
           THEN /\ ts' = r.obj
                /\ heap' = r.heap
                /\ hist' = [hist EXCEPT !.values = heap[caller.values],
                                        !.times0 = TimesOf(r.heap, r.obj),
                                        !.times = TimesArg(heap, caller)]
           ELSE UNCHANGED <<ts, heap, hist>>
        /\ UNCHANGED <<caller, rhs, ats>>

\* the caller stores into one of its own lists after a series was built
CallerSetItem ==
    /\ ts.class = "TimeSeries"
    /\ hist.muts < MaxMutations
    /\ \E c \in {"argV", "argT"}, i \in 1..MaxLen, x \in Elems :
          /\ i <= Len(heap[c])
          /\ heap[c][i] # x
          /\ heap' = [heap EXCEPT ![c][i] = x]
          /\ last' = [op |-> "caller_setitem", err |-> "ok",
                      values |-> heap'["argV"], times |-> TimesArg(heap', caller),
                      out |-> NoneObj]
    /\ hist' = [hist EXCEPT !.muts = @ + 1]
    /\ UNCHANGED <<caller, ts, rhs, ats>>

\* the caller appends to one of its own lists after a series was built
CallerAppend ==
    /\ ts.class = "TimeSeries"
    /\ hist.muts < MaxMutations
    /\ \E c \in {"argV", "argT"}, x \in Elems :
          /\ Len(heap[c]) < MaxLen
          /\ c = "argT" => caller.times = "argT"
          /\ heap' = [heap EXCEPT ![c] = Append(@, x)]
          /\ last' = [op |-> "caller_append", err |-> "ok",
                      values |-> heap'["argV"], times |-> TimesArg(heap', caller),
                      out |-> NoneObj]
    /\ hist' = [hist EXCEPT !.muts = @ + 1]
    /\ UNCHANGED <<caller, ts, rhs, ats>>

Next == ConstructTS \/ CallerSetItem \/ CallerAppend

Spec == Init /\ [][Next]_vars

----------------------------------------------------------------------------
(* The array variant: construction from the caller's lists, interpolation *)

ArrTimeElems == {Num(n) : n \in 0..ArrMaxTime}

QueryElems == {Num(n) : n \in (0 - 1)..(ArrMaxTime + 1)} \cup {StrA}

InitArr ==
    /\ \E v \in Lists \cup SeqsUpTo(NumElems, ArrMaxLen),
          t \in Lists \cup SeqsUpTo(ArrTimeElems, ArrMaxLen), g \in BOOLEAN :
          /\ ~g => t = <<>>
          /\ heap = [EmptyHeap EXCEPT !["argV"] = v, !["argT"] = t]
          /\ caller = [values |-> "argV", times |-> IF g THEN "argT" ELSE "None"]
    /\ ts = NoneObj
    /\ rhs = NoneObj
    /\ ats = NoneObj
    /\ last = NoCall
    /\ hist = [values |-> <<>>, times |-> [given |-> FALSE, seq |-> <<>>],
               times0 |-> <<>>, muts |-> 0]

\* ats = ArrayTimeSeries(times, values)
ConstructATS ==
    LET r == ArrayTimeSeries__init__(TimesArg(heap, caller).seq, TimesArg(heap, caller).given,
                                     heap[caller.values])
    IN  /\ last' = [op |-> "ArrayTimeSeries", err |-> r.err,
                    values |-> heap[caller.values], times |-> TimesArg(heap, caller),
                    out |-> r.obj]
        /\ ats' = IF r.err = "ok" THEN r.obj ELSE ats
        /\ UNCHANGED <<heap, caller, ts, rhs, hist>>

\* ats.interpolate(q)
Interpolate ==
    /\ ats.class = "ArrayTimeSeries"
    /\ \E q \in SeqsUpTo(QueryElems, MaxQueryLen) :
          last' = [op |-> "interpolate", err |-> interpolate(ats, q).err,
                   query |-> q, out |-> interpolate(ats, q).out]
    /\ UNCHANGED <<heap, caller, ts, rhs, ats, hist>>

NextArr == ConstructATS \/ Interpolate

SpecArr == InitArr /\ [][NextArr]_vars

----------------------------------------------------------------------------
(* Series in use: a series built from valid numeric input, then read and   *)
(* written by index                                                        *)

\* the outcome of `slot = TimeSeries(in.values, in.times)`: [err, obj, heap]
Built(h, in, slot) ==
    TimeSeries__init__([h EXCEPT !["argV"] = in.values, !["argT"] = in.times.seq],
                       "argV", IF in.times.given THEN "argT" ELSE "None", slot)

\* the inputs over numbers that TimeSeries.__init__ accepts: with empty
\* values any times (lines 57-60 do not look at them); otherwise times
\* omitted, empty (falsy at line 64), or sorted and as long as values
SeriesInputs ==
    {in \in [values : NumLists, times : [given : BOOLEAN, seq : NumLists]] :
        /\ ~in.times.given => in.times.seq = <<>>
        /\ Built(EmptyHeap, in, "ts").err = "ok"}

InitSet ==
    /\ \E in \in SeriesInputs :
          /\ heap = Built(EmptyHeap, in, "ts").heap
          /\ ts = Built(EmptyHeap, in, "ts").obj
          /\ caller = [values |-> "argV", times |-> IF in.times.given THEN "argT" ELSE "None"]
          /\ hist = [values |-> in.values, times |-> in.times,
                     times0 |-> TimesOf(Built(EmptyHeap, in, "ts").heap,
                                        Built(EmptyHeap, in, "ts").obj),
                     muts |-> 0]
    /\ rhs = NoneObj
    /\ ats = NoneObj
    /\ last = NoCall

\* every index of a series of at most MaxLen points, and one beyond each end
Indices == (0 - (MaxLen + 1))..MaxLen

\* ts[i] = v
SetItem ==
    \E i \in Indices, v \in NumElems :
       LET r == TimeSeries__setitem__(heap, ts, i, v)
       IN  /\ ts' = r.obj
           /\ heap' = r.heap
           /\ last' = [op |-> "set", err |-> r.err, i |-> i, v |-> v]
           /\ UNCHANGED <<caller, rhs, ats, hist>>

\* ts[i]
GetItem ==
    \E i \in Indices :
       /\ last' = [op |-> "get", err |-> TimeSeries__getitem__(heap, ts, i).err, i |-> i,
                   out |-> TimeSeries__getitem__(heap, ts, i).out]
       /\ UNCHANGED <<heap, caller, ts, rhs, ats, hist>>

NextSet == SetItem \/ GetItem

SpecSet == InitSet /\ [][NextSet]_vars

----------------------------------------------------------------------------
(* Two operands: arithmetic, equality, abs and bool *)

NotASeries == [class |-> "int", v |-> 1]

InitOps ==
    /\ \E in1 \in SeriesInputs, in2 \in SeriesInputs, other \in BOOLEAN :
          LET b1 == Built(EmptyHeap, in1, "ts")
              b2 == Built(b1.heap, in2, "rhs")
          IN  /\ other => in2 = in1
              /\ heap = IF other THEN b1.heap ELSE b2.heap
              /\ ts = b1.obj
              /\ rhs = IF other THEN NotASeries ELSE b2.obj
              /\ caller = [values |-> "argV",
                           times |-> IF in2.times.given THEN "argT" ELSE "None"]
              /\ hist = [values |-> in1.values, times |-> in1.times,
                         times0 |-> TimesOf(b1.heap, b1.obj), muts |-> 0]
    /\ ats = NoneObj
    /\ last = NoCall

\* the operands' contents, as the record of a call keeps them
Operands(h) ==
    [lvalues |-> ValuesOf(h, ts), ltimes |-> TimesOf(h, ts),
     rvalues |-> IF IsTimeSeries(rhs) THEN ValuesOf(h, rhs) ELSE <<>>,
     rtimes |-> IF IsTimeSeries(rhs) THEN TimesOf(h, rhs) ELSE <<>>]

Arith(op) ==
    LET r == TimeSeriesArith(heap, ts, rhs, op)
    IN  /\ heap' = r.heap
        /\ last' = [op |-> op, err |-> r.err, before |-> Operands(heap), out |-> r.out]
        /\ UNCHANGED <<caller, ts, rhs, ats, hist>>

\* ts + rhs
Add == Arith("add")

\* ts - rhs
Sub == Arith("sub")

\* ts * rhs
Mul == Arith("mul")

\* ts == rhs
Eq ==
    /\ last' = [op |-> "eq", err |-> TimeSeries__eq__(heap, ts, rhs).err,
                before |-> Operands(heap), out |-> TimeSeries__eq__(heap, ts, rhs).out]
    /\ UNCHANGED <<heap, caller, ts, rhs, ats, hist>>

\* abs(ts)
AbsCall ==
    /\ last' = [op |-> "abs", err |-> TimeSeries__abs__(heap, ts).err,
                out |-> TimeSeries__abs__(heap, ts).out]
    /\ UNCHANGED <<heap, caller, ts, rhs, ats, hist>>

\* bool(ts)
BoolCall ==
    /\ last' = [op |-> "bool", err |-> TimeSeries__bool__(heap, ts).err,
                out |-> TimeSeries__bool__(heap, ts).out]
    /\ UNCHANGED <<heap, caller, ts, rhs, ats, hist>>

NextOps == Add \/ Sub \/ Mul \/ Eq \/ AbsCall \/ BoolCall

SpecOps == InitOps /\ [][NextOps]_vars

----------------------------------------------------------------------------
(* Properties of construction, stated on the record of the last call *)

\* the times a valid construction is to hold: the given ones, or 0..n-1
ExpectedTimes(values, times) == IF times.given THEN times.seq ELSE RangeSeq(Len(values))

\* C3 as stated: whenever a times argument is given whose length differs from
\* that of values, TimeSeries(values, times) fails with LengthMismatchError
\* and produces no series.
C3_AnyLengthMismatchFails ==
    (last.op = "TimeSeries" /\ last.times.given
        /\ Len(last.times.seq) # Len(last.values))
    => (last.err = "LengthMismatchError" /\ last.out.class = "NoneType")

\* C3 amended: with non-empty values whose first element is numeric and a
\* non-empty, numeric, non-decreasing times of another length, construction
\* fails with LengthMismatchError and produces no series; with empty values it
\* yields the empty series whatever times is; an empty times with non-empty
\* values is taken as omitted and the times default to 0..n-1.
C3_LengthMismatch ==
    (last.op = "TimeSeries" /\ last.times.given
        /\ Len(last.times.seq) # Len(last.values))
    => /\ (Len(last.values) > 0 /\ Len(last.times.seq) > 0
             /\ Floatable(last.values[1])
             /\ AllNumeric(last.times.seq) /\ NonDecreasing(last.times.seq))
          => (last.err = "LengthMismatchError" /\ last.out.class = "NoneType")
       /\ Len(last.values) = 0
          => (last.err = "ok" /\ last.out.class = "TimeSeries"
                /\ last.out.timeseries = <<>>)
       /\ (Len(last.times.seq) = 0 /\ Len(last.values) > 0 /\ Floatable(last.values[1]))
          => (last.err = "ok" /\ last.out.class = "TimeSeries"
                /\ last.out._times = RangeTimes(Len(last.values)))

\* a construction with sorted numeric times of another length was rejected
C3_Witness ==
    /\ last.op = "TimeSeries"
    /\ last.times.given
    /\ Len(last.values) = 2
    /\ Len(last.times.seq) = 1
    /\ AllNumeric(last.values)
    /\ AllNumeric(last.times.seq)
    /\ last.err = "LengthMismatchError"

\* C4: a non-numeric element of values or of the supplied times, at any
\* position, makes construction fail with InvalidDataError, so every value
\* and time of a constructed series is numeric.
C4_EveryEntryValidated ==
    last.op = "TimeSeries"
    => /\ (~AllNumeric(last.values) \/ ~AllNumeric(last.times.seq))
          => last.err = "InvalidDataError"
       /\ last.err = "ok"
          => (AllNumeric(ValuesOf(heap, last.out)) /\ AllNumeric(TimesOf(heap, last.out)))

ValidInput(values, times) ==
    /\ Len(values) > 0
    /\ AllNumeric(values)
    /\ times.given
       => (AllNumeric(times.seq) /\ NonDecreasing(times.seq)
             /\ Len(times.seq) = Len(values))

\* C5: a series built from a valid input (non-empty numeric values; times
\* omitted, or numeric, non-decreasing and as long as values) holds pairs
\* equal to zip(T, values), T the given times or 0..n-1, and holds its own
\* copies of values and times: what the caller does to its lists afterwards
\* leaves the series as built.
C5_PairsAreZipOfCopies ==
    (ts.class = "TimeSeries" /\ ValidInput(hist.values, hist.times))
    => /\ ts.timeseries = Zip(ExpectedTimes(hist.values, hist.times), hist.values)
       /\ ValuesOf(heap, ts) = hist.values
       /\ TimesOf(heap, ts) = ExpectedTimes(hist.values, hist.times)

\* a series built from values and explicit times, whose caller then changed
\* the values list it had passed
C5_Witness ==
    /\ ts.class = "TimeSeries"
    /\ ValidInput(hist.values, hist.times)
    /\ hist.times.given
    /\ Len(hist.values) = 2
    /\ hist.muts > 0
    /\ heap["argV"] # hist.values
    /\ ts.timeseries = Zip(hist.times.seq, hist.values)

----------------------------------------------------------------------------
(* Properties of the array variant *)

\* C6: ArrayTimeSeries(times, values) is accepted exactly when
\* TimeSeries(values, times) is, is rejected with the same error kind
\* otherwise, and when accepted holds times, values and pairs of one length,
\* equal to those of the TimeSeries built from the same input.
C6_SameContractAsTimeSeries ==
    last.op = "ArrayTimeSeries"
    => LET r == TimeSeries__init__(heap, caller.values, caller.times, "tmp")
       IN  /\ last.err = r.err
           /\ last.err = "ok"
              => /\ Len(last.out._times) = Len(last.out._values)
                 /\ Len(last.out.timeseries) = Len(last.out._values)
                 /\ last.out._values = ValuesOf(r.heap, r.obj)
                 /\ last.out._times = TimesOf(r.heap, r.obj)
                 /\ last.out.timeseries = r.obj.timeseries

\* the k, counted from 1, with times[k] < t <= times[k+1]
Brackets(T, t) == {k \in 1..(Len(T) - 1) : T[k].v < t.v /\ t.v <= T[k + 1].v}

\* the result the specification gives for query time t
ExpectedInterpolation(T, V, t) ==
    IF t.v <= T[1].v THEN Frac(T[1].v, 1)
    ELSE IF t.v >= T[Len(T)].v THEN Frac(T[Len(T)].v, 1)
    ELSE LET k == CHOOSE k \in Brackets(T, t) : TRUE
         IN  Frac(V[k].v * (T[k + 1].v - T[k].v) + (t.v - T[k].v) * (V[k + 1].v - V[k].v),
                  T[k + 1].v - T[k].v)

InterpolationReady(o) ==
    /\ o.class = "ArrayTimeSeries"
    /\ Len(o._times) >= 1
    /\ Len(o._values) = Len(o._times)
    /\ AllNumeric(o._times)
    /\ AllNumeric(o._values)
    /\ NonDecreasing(o._times)

\* each query strictly inside the stored times has exactly one bracket, it is
\* the index the code computes, and its two times differ
BracketOk(T, t) ==
    (T[1].v < t.v /\ t.v < T[Len(T)].v)
    => /\ Cardinality(Brackets(T, t)) = 1
       /\ Brackets(T, t) = {PrevIndex(T, t) + 1}
       /\ 0 <= PrevIndex(T, t) /\ PrevIndex(T, t) < Len(T) - 1
       /\ T[PrevIndex(T, t) + 2].v # T[PrevIndex(T, t) + 1].v

\* C7: on a series with at least one point, non-decreasing times and as many
\* values, interpolate(q) returns one result per query time, in order: the
\* first stored time for t <= it, the last stored time for t >= it, and
\* otherwise the linear interpolation on the one k with times[k] < t <=
\* times[k+1], for which 0 <= k < n-1 and times[k+1] # times[k].
C7_InterpolateResults ==
    (last.op = "interpolate" /\ InterpolationReady(ats) /\ AllNumeric(last.query))
    => /\ last.err = "ok"
       /\ Len(last.out) = Len(last.query)
       /\ \A j \in 1..Len(last.query) :
             /\ BracketOk(ats._times, last.query[j])
             /\ last.out[j] = ExpectedInterpolation(ats._times, ats._values, last.query[j])

\* The same for a query sequence that is not empty.
InterpolateNonEmptyQuery ==
    (last.op = "interpolate" /\ InterpolationReady(ats) /\ AllNumeric(last.query)
        /\ Len(last.query) > 0)
    => /\ last.err = "ok"
       /\ Len(last.out) = Len(last.query)
       /\ \A j \in 1..Len(last.query) :
             /\ BracketOk(ats._times, last.query[j])
             /\ last.out[j] = ExpectedInterpolation(ats._times, ats._values, last.query[j])

\* an interpolation strictly inside stored times that repeat
InterpolateInsideReached ==
    /\ last.op = "interpolate"
    /\ last.err = "ok"
    /\ InterpolationReady(ats)
    /\ Len(ats._times) = 3
    /\ ats._times[1] = ats._times[2]
    /\ ats._values[3].v # ats._values[2].v
    /\ Len(last.query) = 1
    /\ ats._times[1].v < last.query[1].v
    /\ last.query[1].v < ats._times[3].v

----------------------------------------------------------------------------
(* Properties of index access *)

\* the position, from 1, that an in-range Python index i names in n elements
Position(n, i) == IF i >= 0 THEN i + 1 ELSE n + i + 1

InRange(n, i) == 0 - n <= i /\ i < n

SeriesInSync ==
    /\ TimesOf(heap, ts) = hist.times0
    /\ Len(TimesOf(heap, ts)) = Len(hist.values)
    /\ Len(ValuesOf(heap, ts)) = Len(hist.values)
    /\ Len(ts.timeseries) = Len(hist.values)
    /\ \A k \in 1..Len(ts.timeseries) :
          ts.timeseries[k] = <<TimesOf(heap, ts)[k], ValuesOf(heap, ts)[k]>>

\* C8: after any sequence of set(i, v) calls on a constructed series,
\* succeeding or failing with IndexError, the times are those fixed at
\* construction, times, values and pairs have the length they had at
\* construction, and pairs[k] = (times[k], values[k]) for every k; a call
\* that fails leaves values and pairs as they were.
C8_SetKeepsSeriesInSync ==
    /\ [](ts.class = "TimeSeries" => SeriesInSync)
    /\ [][(last'.op = "set" /\ last'.err # "ok")
            => (last'.err = "IndexError" /\ ts' = ts /\ heap' = heap)]_vars

\* a set failed with IndexError on a two-point series with explicit times,
\* after an earlier set had changed a value
C8_Witness ==
    /\ last.op = "set"
    /\ last.err = "IndexError"
    /\ hist.times.given
    /\ Len(hist.values) = 2
    /\ Len(hist.times.seq) = 2
    /\ ValuesOf(heap, ts) # hist.values

\* C9: for every in-range index i and every value v, set(i, v) succeeds,
\* get(i) then returns v, the time at i is unchanged, and the value and the
\* time at every other index are unchanged.
C9_SetThenGet ==
    [][(last'.op = "set" /\ InRange(Len(ValuesOf(heap, ts)), last'.i))
         => /\ last'.err = "ok"
            /\ TimeSeries__getitem__(heap', ts', last'.i) = [err |-> "ok", out |-> last'.v]
            /\ TimesOf(heap', ts') = TimesOf(heap, ts)
            /\ Len(ts'.timeseries) = Len(ts.timeseries)
            /\ \A j \in 1..Len(ts.timeseries) :
                  /\ ts'.timeseries[j][1] = ts.timeseries[j][1]
                  /\ j # Position(Len(ValuesOf(heap, ts)), last'.i)
                     => /\ ValuesOf(heap', ts')[j] = ValuesOf(heap, ts)[j]
                        /\ ts'.timeseries[j] = ts.timeseries[j]]_vars

\* a set through a negative index changed the last value of a two-point
\* series whose times are not the positions
C9_Witness ==
    /\ last.op = "set"
    /\ last.err = "ok"
    /\ last.i = 0 - 1
    /\ hist.times.given
    /\ Len(hist.values) = 2
    /\ Len(hist.times.seq) = 2
    /\ hist.times.seq[2] # Num(1)
    /\ ValuesOf(heap, ts)[2] = last.v
    /\ hist.values[2] # last.v
    /\ ts.timeseries[2] = <<hist.times.seq[2], last.v>>

----------------------------------------------------------------------------
(* Properties of the operators *)

\* C1: on two series with elementwise equal times (given or defaulted), add,
\* subtract and multiply return a new series with the left operand's times
\* and the values left[i] op right[i]; neither operand is changed.
C1_ElementwiseArithmetic ==
    (last.op \in {"add", "sub", "mul"} /\ IsTimeSeries(rhs)
        /\ last.before.ltimes = last.before.rtimes)
    => /\ last.err = "ok"
       /\ TimesOf(heap, last.out) = last.before.ltimes
       /\ Len(ValuesOf(heap, last.out)) = Len(last.before.lvalues)
       /\ \A i \in 1..Len(last.before.lvalues) :
             ValuesOf(heap, last.out)[i] =
                PyArith(last.op, last.before.lvalues[i], last.before.rvalues[i])
       /\ Operands(heap) = last.before

\* C2: add, subtract, multiply and equals on a right-hand series whose times
\* differ from the left operand's, in length or at an index, fail with
\* TimeMismatchError (ValueError) and with no other error.
C2_TimeMismatchError ==
    (last.op \in {"add", "sub", "mul", "eq"} /\ IsTimeSeries(rhs)
        /\ last.before.ltimes # last.before.rtimes)
    => last.err = "TimeMismatchError"

\* C10: bool(series) is true exactly when a stored value is nonzero, and
\* abs(series) is the square root of the sum of the squares of the values.
C10_BoolIffMagnitudeNonzero ==
    /\ last.op = "bool"
       => (last.err = "ok"
             /\ last.out = (\E i \in 1..Len(ValuesOf(heap, ts)) : ValuesOf(heap, ts)[i].v # 0))
    /\ last.op = "abs"
       => (last.err = "ok" /\ last.out = SumSquares(ValuesOf(heap, ts)))

====
